---- MODULE Spec2Model ----
(***************************************************************************)
(* cluster_run (src/src/main.rs): run one command on every node of the     *)
(* cluster listed in config.toml, one node after the other, over SSH.      *)
(*                                                                         *)
(* The model follows main, run_command and get_ssh_key_paths statement by  *)
(* statement.  Every call that can fail (file read, TOML parse, TCP        *)
(* connect, libssh2 calls) is one action with a success and a failure      *)
(* outcome; the local process environment (argv, config.toml, HOME and the *)
(* two key files) is fixed at process start.                               *)
(***************************************************************************)
EXTENDS Integers, Sequences, FiniteSets, TLC

\* Longest node list of config.toml that is explored.
MaxNodes == 2

\* Node addresses that may appear in config.toml (a list may repeat one).
Addr == {"10.0.0.1", "10.0.0.2"}

\* args[0] of the process.
ProgName == "cluster_run"

\* Argument vectors the process is started with (program name included).
ArgChoices ==
    { <<ProgName>>,
      <<ProgName, "uptime">>,
      <<ProgName, "apt", "update">>,
      <<ProgName, "echo", "hi">>,
      <<ProgName, "run", "apt", "update">> }

\* What is found at the path config.toml.
ConfigKinds == {"missing", "malformed", "nofield", "ok"}

\* What the remote command writes to the channel.
RemoteData == "hi\n"

NodeLists == UNION { [1..n -> Addr] : n \in 0..MaxNodes }

VARIABLES
    pc,         \* position of the single thread of control
    args,       \* env::args(), args[1] is the program name
    configFile, \* what fs::read_to_string / toml::from_str will find
    fileNodes,  \* cluster.nodes as written in config.toml
    env,        \* HOME set?, ~/.ssh/id_rsa.pub exists?, ~/.ssh/id_rsa exists?
    command,    \* main: let command
    nodes,      \* main: config.cluster.nodes once parsed
    idx,        \* main: position of the for loop in nodes (1-based)
    open,       \* live tcp / sess / channel values, each tagged with idx
    keys,       \* run_command: (pubkey, privkey) once resolved
    output,     \* run_command: let mut output
    result,     \* value run_command returned to main
    calls,      \* history: every invocation of run_command
    steps,      \* history: every fallible step attempted in run_command
    out,        \* lines written to stdout / stderr
    exitCode    \* process exit status, -1 while running

vars == <<pc, args, configFile, fileNodes, env, command, nodes, idx, open,
          keys, output, result, calls, steps, out, exitCode>>

NoResult == [tag |-> "none", val |-> ""]
Ok(v)    == [tag |-> "ok", val |-> v]
Err(e)   == [tag |-> "err", val |-> e]

\* A join that writes the separator after every element, the last included.
RECURSIVE joinTrailingSep(_, _)
joinTrailingSep(s, sep) ==
    IF s = <<>> THEN ""
    ELSE s[1] \o sep \o joinTrailingSep(Tail(s), sep)

\* slice::join: the elements in order, sep between neighbours.
RECURSIVE join(_, _)
join(s, sep) ==
    IF s = <<>> THEN ""
    ELSE IF Len(s) = 1 THEN s[1]
    ELSE s[1] \o sep \o join(Tail(s), sep)

\* args[2..]: the first argument after the program name is left out too.
ArgsAfterFirstArg(a) == SubSeq(a, 3, Len(a))

\* args[1..] of a 0-based vector: everything after the program name.
ArgsAfterProgName(a) == SubSeq(a, 2, Len(a))

\* main, line 49: let command = args[1..].join(" ").
BuildCommand(a) == join(ArgsAfterProgName(a), " ")

Line(stream, kind, node, cmd, text) ==
    [stream |-> stream, kind |-> kind, node |-> node, cmd |-> cmd,
     text |-> text]

\* Error messages of the two failures of get_ssh_key_paths.
NoHomeMsg == "Unable to determine home directory"
NoKeysMsg == "SSH key files not found in the default location"

\* get_ssh_key_paths without the exists() test of line 132.
get_ssh_key_paths_unchecked(e) ==
    IF ~e.home THEN Err(NoHomeMsg) ELSE Ok("keys")

\* get_ssh_key_paths, lines 125-137, as a function of the environment.
get_ssh_key_paths(e) ==
    IF ~e.home THEN Err(NoHomeMsg)
    ELSE IF ~e.pub \/ ~e.priv THEN Err(NoKeysMsg)
    ELSE Ok("keys")

\* The values are leaked (kept alive) instead of dropped.
KeepLocals(o) == o

\* Values that go out of scope when run_command returns: tcp (moved into
\* sess), sess and channel are dropped, which closes them.
DropLocals(o) == {}

Init ==
    /\ pc = "start"
    /\ args \in ArgChoices
    /\ configFile \in ConfigKinds
    /\ fileNodes \in NodeLists
    /\ configFile \in {"missing", "nofield"} => fileNodes = <<>>
    /\ env \in [home : BOOLEAN, pub : BOOLEAN, priv : BOOLEAN]
    /\ ~env.home => (env.pub /\ env.priv)
    /\ command = ""
    /\ nodes = <<>>
    /\ idx = 0
    /\ open = {}
    /\ keys = FALSE
    /\ output = ""
    /\ result = NoResult
    /\ calls = <<>>
    /\ steps = <<>>
    /\ out = <<>>
    /\ exitCode = -1

\* main, line 39.
Welcome ==
    /\ pc = "start"
    /\ out' = Append(out, Line("stdout", "welcome", "", "", ""))
    /\ pc' = "args"
    /\ UNCHANGED <<args, configFile, fileNodes, env, command, nodes, idx,
                   open, keys, output, result, calls, steps, exitCode>>

\* The usage message is printed but the process goes on.
UsageErrorNoExit ==
    /\ pc = "args"
    /\ Len(args) < 2
    /\ out' = Append(out, Line("stderr", "usage", "", "", args[1]))
    /\ command' = BuildCommand(args)
    /\ pc' = "read_config"
    /\ UNCHANGED <<args, configFile, fileNodes, env, nodes, idx, open, keys,
                   output, result, calls, steps, exitCode>>

\* main, lines 43-46: too few arguments.
UsageError ==
    /\ pc = "args"
    /\ Len(args) < 2
    /\ out' = Append(out, Line("stderr", "usage", "", "", args[1]))
    /\ exitCode' = 1
    /\ pc' = "exited"
    /\ UNCHANGED <<args, configFile, fileNodes, env, command, nodes, idx,
                   open, keys, output, result, calls, steps>>

\* main, lines 43-49: enough arguments, build the command.
MakeCommand ==
    /\ pc = "args"
    /\ ~(Len(args) < 2)
    /\ command' = BuildCommand(args)
    /\ pc' = "read_config"
    /\ UNCHANGED <<args, configFile, fileNodes, env, nodes, idx, open, keys,
                   output, result, calls, steps, out, exitCode>>

\* main returns Err through `?`: the runtime prints the error to stderr and
\* the process exits with status 1.
MainErr(cause) ==
    /\ out' = Append(out, Line("stderr", "fatal", "", "", cause))
    /\ exitCode' = 1
    /\ pc' = "exited"
    /\ UNCHANGED <<args, configFile, fileNodes, env, command, nodes, idx,
                   open, keys, output, result, calls, steps>>

\* main, line 52: fs::read_to_string("config.toml") fails.
ReadConfigErr ==
    /\ pc = "read_config"
    /\ configFile = "missing"
    /\ MainErr("read config.toml")

\* main, line 52: the file is read.
ReadConfigOk ==
    /\ pc = "read_config"
    /\ configFile # "missing"
    /\ pc' = "parse_config"
    /\ UNCHANGED <<args, configFile, fileNodes, env, command, nodes, idx,
                   open, keys, output, result, calls, steps, out, exitCode>>

\* A lenient parse: whatever node list can be recovered is used, an absent
\* one counts as empty.
ParseConfigLenient ==
    /\ pc = "parse_config"
    /\ configFile \in {"malformed", "nofield"}
    /\ nodes' = fileNodes
    /\ idx' = 1
    /\ pc' = "loop"
    /\ UNCHANGED <<args, configFile, fileNodes, env, command, open, keys,
                   output, result, calls, steps, out, exitCode>>

\* main, line 53: toml::from_str fails (bad syntax, or cluster.nodes absent).
ParseConfigErr ==
    /\ pc = "parse_config"
    /\ configFile \in {"malformed", "nofield"}
    /\ MainErr("parse config.toml")

\* main, line 53: the configuration is parsed; the for loop starts.
ParseConfigOk ==
    /\ pc = "parse_config"
    /\ configFile = "ok"
    /\ nodes' = fileNodes
    /\ idx' = 1
    /\ pc' = "loop"
    /\ UNCHANGED <<args, configFile, fileNodes, env, command, open, keys,
                   output, result, calls, steps, out, exitCode>>

\* main, lines 56-58: next node, announce it and call run_command.
LoopNext ==
    /\ pc = "loop"
    /\ idx <= Len(nodes)
    /\ out' = Append(out, Line("stdout", "announce", nodes[idx], "", ""))
    /\ calls' = Append(calls, [k |-> idx, node |-> nodes[idx],
                               command |-> command])
    /\ pc' = "connect"
    /\ UNCHANGED <<args, configFile, fileNodes, env, command, nodes, idx,
                   open, keys, output, result, steps, exitCode>>

\* The exit status tells whether an error line was printed for some node.
LoopEndReflectsFailures ==
    /\ pc = "loop"
    /\ idx > Len(nodes)
    /\ exitCode' = IF \E i \in 1..Len(out) : out[i].kind = "error"
                   THEN 1 ELSE 0
    /\ pc' = "exited"
    /\ UNCHANGED <<args, configFile, fileNodes, env, command, nodes, idx,
                   open, keys, output, result, calls, steps, out>>

\* main, lines 66-68: the list is exhausted, Ok(()) is returned.
LoopEnd ==
    /\ pc = "loop"
    /\ idx > Len(nodes)
    /\ exitCode' = 0
    /\ pc' = "exited"
    /\ UNCHANGED <<args, configFile, fileNodes, env, command, nodes, idx,
                   open, keys, output, result, calls, steps, out>>

\* One attempted call of run_command: for which node position, which call,
\* whether it succeeded, and the error it returned.
Step(name, ok, err) == [k |-> idx, step |-> name, ok |-> ok, err |-> err]

\* A fallible call of run_command succeeds; control moves to the next line.
StepOk(at, name, next, opened) ==
    /\ pc = at
    /\ steps' = Append(steps, Step(name, TRUE, ""))
    /\ open' = open \cup opened
    /\ pc' = next
    /\ UNCHANGED <<args, configFile, fileNodes, env, command, nodes, idx,
                   keys, output, result, calls, out, exitCode>>

\* A fallible call of run_command fails: `?` returns the error to main and
\* the locals are dropped.
StepErr(at, name, cause) ==
    /\ pc = at
    /\ steps' = Append(steps, Step(name, FALSE, cause))
    /\ result' = Err(cause)
    /\ open' = DropLocals(open)
    /\ keys' = FALSE
    /\ pc' = "report"
    /\ UNCHANGED <<args, configFile, fileNodes, env, command, nodes, idx,
                   calls, out, exitCode>>

\* A failed connect is tried a second time before the error is returned.
ConnectErrRetry ==
    /\ pc = "connect"
    /\ steps' = Append(steps, Step("connect", FALSE, "connect"))
    /\ IF \E i \in 1..Len(steps) :
             steps[i].k = idx /\ steps[i].step = "connect"
       THEN /\ result' = Err("connect")
            /\ open' = DropLocals(open)
            /\ keys' = FALSE
            /\ pc' = "report"
       ELSE UNCHANGED <<result, open, keys, pc>>
    /\ UNCHANGED <<args, configFile, fileNodes, env, command, nodes, idx,
                   output, calls, out, exitCode>>

\* run_command, line 90.
ConnectOk  == StepOk("connect", "connect", "session", {<<"tcp", idx>>})
ConnectErr == StepErr("connect", "connect", "connect") /\ output' = output

\* run_command, lines 91-92 (set_tcp_stream cannot fail).
SessionOk  == StepOk("session", "session", "handshake", {<<"sess", idx>>})
SessionErr == StepErr("session", "session", "session") /\ output' = output

\* The handshake error is swallowed instead of returned with `?`.
HandshakeErrIgnored ==
    /\ pc = "handshake"
    /\ steps' = Append(steps, Step("handshake", FALSE, "handshake"))
    /\ pc' = "keys"
    /\ UNCHANGED <<args, configFile, fileNodes, env, command, nodes, idx,
                   open, keys, output, result, calls, out, exitCode>>

\* run_command, line 93.
HandshakeOk  == StepOk("handshake", "handshake", "keys", {})
HandshakeErr == StepErr("handshake", "handshake", "handshake")
                    /\ output' = output

\* The key paths resolved for an earlier node are reused: get_ssh_key_paths
\* is called only while no resolution has succeeded yet.
KeysOkCached ==
    /\ pc = "keys"
    /\ get_ssh_key_paths(env).tag = "ok"
    /\ steps' = IF \E i \in 1..Len(steps) :
                        steps[i].step = "keys" /\ steps[i].ok
                THEN steps
                ELSE Append(steps, Step("keys", TRUE, ""))
    /\ keys' = TRUE
    /\ pc' = "auth"
    /\ UNCHANGED <<args, configFile, fileNodes, env, command, nodes, idx,
                   open, output, result, calls, out, exitCode>>

\* run_command, line 96: get_ssh_key_paths()?.
KeysOk ==
    /\ pc = "keys"
    /\ get_ssh_key_paths(env).tag = "ok"
    /\ steps' = Append(steps, Step("keys", TRUE, ""))
    /\ keys' = TRUE
    /\ pc' = "auth"
    /\ UNCHANGED <<args, configFile, fileNodes, env, command, nodes, idx,
                   open, output, result, calls, out, exitCode>>

\* The error of get_ssh_key_paths ends the process instead of the attempt.
KeysErrFatal ==
    /\ pc = "keys"
    /\ get_ssh_key_paths(env).tag = "err"
    /\ MainErr(get_ssh_key_paths(env).val)

KeysErr ==
    /\ get_ssh_key_paths(env).tag = "err"
    /\ StepErr("keys", "keys", get_ssh_key_paths(env).val)
    /\ output' = output

\* run_command, line 99.
AuthOk  == StepOk("auth", "auth", "channel", {})
AuthErr == StepErr("auth", "auth", "auth") /\ output' = output

\* run_command, line 102.
ChannelOk  == StepOk("channel", "channel", "exec", {<<"channel", idx>>})
ChannelErr == StepErr("channel", "channel", "channel") /\ output' = output

\* run_command, line 103.
ExecOk  == StepOk("exec", "exec", "read", {})
ExecErr == StepErr("exec", "exec", "exec") /\ output' = output

\* run_command, lines 106-107: read to end of output.
ReadOk ==
    /\ pc = "read"
    /\ steps' = Append(steps, Step("read", TRUE, ""))
    /\ output' = RemoteData
    /\ pc' = "wait_close"
    /\ UNCHANGED <<args, configFile, fileNodes, env, command, nodes, idx,
                   open, keys, result, calls, out, exitCode>>

\* The read fails (I/O error or bytes that are not UTF-8); output, with
\* whatever it held, is dropped with the other locals.
ReadErr == StepErr("read", "read", "read") /\ output' = ""

\* run_command, lines 110-113: the channel closed, Ok(output) is returned.
WaitCloseOk ==
    /\ pc = "wait_close"
    /\ steps' = Append(steps, Step("wait_close", TRUE, ""))
    /\ result' = Ok(output)
    /\ output' = ""
    /\ open' = DropLocals(open)
    /\ keys' = FALSE
    /\ pc' = "report"
    /\ UNCHANGED <<args, configFile, fileNodes, env, command, nodes, idx,
                   calls, out, exitCode>>

\* The error of wait_close is discarded and the captured output returned.
WaitCloseErrIgnored ==
    /\ pc = "wait_close"
    /\ steps' = Append(steps, Step("wait_close", FALSE, "wait_close"))
    /\ result' = Ok(output)
    /\ output' = ""
    /\ open' = DropLocals(open)
    /\ keys' = FALSE
    /\ pc' = "report"
    /\ UNCHANGED <<args, configFile, fileNodes, env, command, nodes, idx,
                   calls, out, exitCode>>

WaitCloseErr == StepErr("wait_close", "wait_close", "wait_close")
                    /\ output' = ""

\* The loop is left (`break`) after the first node that failed.
ReportStopOnErr ==
    /\ pc = "report"
    /\ out' = out \o
         << IF result.tag = "ok"
            THEN Line("stdout", "output", nodes[idx], command, result.val)
            ELSE Line("stderr", "error", nodes[idx], "", result.val),
            Line("stdout", "blank", "", "", "") >>
    /\ result' = NoResult
    /\ idx' = IF result.tag = "ok" THEN idx + 1 ELSE Len(nodes) + 1
    /\ pc' = "loop"
    /\ UNCHANGED <<args, configFile, fileNodes, env, command, nodes, open,
                   keys, output, calls, steps, exitCode>>

\* The error of run_command is propagated with `?` out of main.
ReportPropagate ==
    /\ pc = "report"
    /\ IF result.tag = "ok"
       THEN /\ out' = out \o
                 << Line("stdout", "output", nodes[idx], command, result.val),
                    Line("stdout", "blank", "", "", "") >>
            /\ result' = NoResult
            /\ idx' = idx + 1
            /\ pc' = "loop"
            /\ UNCHANGED <<args, configFile, fileNodes, env, command, nodes,
                           open, keys, output, calls, steps, exitCode>>
       ELSE MainErr(result.val)

\* The println!() of line 65 is missing: no separator after the outcome.
ReportNoSeparator ==
    /\ pc = "report"
    /\ out' = Append(out,
           IF result.tag = "ok"
           THEN Line("stdout", "output", nodes[idx], command, result.val)
           ELSE Line("stderr", "error", nodes[idx], "", result.val))
    /\ result' = NoResult
    /\ idx' = idx + 1
    /\ pc' = "loop"
    /\ UNCHANGED <<args, configFile, fileNodes, env, command, nodes, open,
                   keys, output, calls, steps, exitCode>>

\* The error text is taken from a buffer that keeps the first error of the
\* run: a later node's error line shows the error of an earlier node.
ReportStickyError ==
    /\ pc = "report"
    /\ out' = out \o
         << IF result.tag = "ok"
            THEN Line("stdout", "output", nodes[idx], command, result.val)
            ELSE Line("stderr", "error", nodes[idx], "",
                      IF \E i \in 1..Len(out) : out[i].kind = "error"
                      THEN out[CHOOSE i \in 1..Len(out) :
                                   /\ out[i].kind = "error"
                                   /\ \A j \in 1..(i - 1) :
                                          out[j].kind # "error"].text
                      ELSE result.val),
            Line("stdout", "blank", "", "", "") >>
    /\ result' = NoResult
    /\ idx' = idx + 1
    /\ pc' = "loop"
    /\ UNCHANGED <<args, configFile, fileNodes, env, command, nodes, open,
                   keys, output, calls, steps, exitCode>>

\* main, lines 58-65: print the outcome and the separator, go to the next
\* node.
Report ==
    /\ pc = "report"
    /\ out' = out \o
         << IF result.tag = "ok"
            THEN Line("stdout", "output", nodes[idx], command, result.val)
            ELSE Line("stderr", "error", nodes[idx], "", result.val),
            Line("stdout", "blank", "", "", "") >>
    /\ result' = NoResult
    /\ idx' = idx + 1
    /\ pc' = "loop"
    /\ UNCHANGED <<args, configFile, fileNodes, env, command, nodes, open,
                   keys, output, calls, steps, exitCode>>

\* Calls of run_command that block the thread until the peer answers; none
\* of them is given a timeout.
BlockingCalls ==
    {"connect", "handshake", "auth", "channel", "exec", "read", "wait_close"}

\* The driver gives up waiting for the call and goes on to the next node.
HangAbandoned ==
    /\ pc \in BlockingCalls
    /\ open' = DropLocals(open)
    /\ keys' = FALSE
    /\ output' = ""
    /\ idx' = idx + 1
    /\ pc' = "loop"
    /\ UNCHANGED <<args, configFile, fileNodes, env, command, nodes, result,
                   calls, steps, out, exitCode>>

\* run_command, lines 90-110: a blocking call never returns (the peer stops
\* answering, the remote command does not end); control stays in the call.
Hang ==
    /\ pc \in BlockingCalls
    /\ pc' = "hung"
    /\ UNCHANGED <<args, configFile, fileNodes, env, command, nodes, idx,
                   open, keys, output, result, calls, steps, out, exitCode>>

\* Every step in which a call returns or a statement of main is executed.
Returns ==
    \/ Welcome
    \/ UsageError
    \/ MakeCommand
    \/ ReadConfigErr
    \/ ReadConfigOk
    \/ ParseConfigErr
    \/ ParseConfigOk
    \/ LoopNext
    \/ LoopEnd
    \/ ConnectOk
    \/ ConnectErr
    \/ SessionOk
    \/ SessionErr
    \/ HandshakeOk
    \/ HandshakeErr
    \/ KeysOk
    \/ KeysErr
    \/ AuthOk
    \/ AuthErr
    \/ ChannelOk
    \/ ChannelErr
    \/ ExecOk
    \/ ExecErr
    \/ ReadOk
    \/ ReadErr
    \/ WaitCloseOk
    \/ WaitCloseErr
    \/ Report

Next ==
    \/ Returns
    \/ Hang

Spec == Init /\ [][Next]_vars

\* The thread of control is never suspended (no await, no yield): whenever a
\* statement can complete it eventually does, unless a call hangs.
FairSpec == Spec /\ WF_vars(Returns)

(***************************************************************************)
(* Properties of the driver loop and of one node attempt.                  *)
(***************************************************************************)

\* Order of the fallible calls of run_command, lines 90-110.
StepOrder == << "connect", "session", "handshake", "keys", "auth", "channel",
                "exec", "read", "wait_close" >>

\* Output of the k-th node: out[1] is the welcome line, then three lines per
\* node (announcement, outcome, separator).
AnnounceLine(k) == out[3 * k - 1]
ResultLine(k)   == out[3 * k]
Reported(k)     == idx > k /\ Len(out) >= 3 * k + 1

ValidRun == configFile = "ok" /\ Len(args) >= 2

FailedSteps == { i \in 1..Len(steps) : ~steps[i].ok }

\* C1: with a valid configuration of N nodes and at least one argument,
\* run_command is invoked once per node, the i-th invocation for the i-th
\* node of the list, and when the process has exited all N invocations were
\* made, whatever the earlier invocations returned.
C1_ExactlyNInOrder ==
    ValidRun =>
        /\ Len(calls) <= Len(fileNodes)
        /\ \A i \in 1..Len(calls) :
               calls[i].k = i /\ calls[i].node = fileNodes[i]
        /\ pc = "exited" => Len(calls) = Len(fileNodes)

\* A run over two nodes ended after the first node's attempt failed.
C1_Witness ==
    /\ pc = "exited"
    /\ Len(fileNodes) = 2
    /\ Len(calls) = 2
    /\ \E i \in FailedSteps : steps[i].k = 1

\* The empty node list: the run ends without any invocation.
C1_WitnessEmpty ==
    /\ pc = "exited" /\ ValidRun /\ fileNodes = <<>> /\ calls = <<>>

\* C2: a failing call of node k's attempt, whichever call it is, ends only
\* that attempt: the next call attempted belongs to a later node, an error
\* line naming node k is printed, and when the process has exited every node
\* after k was attempted and the exit status is 0.
C2_FailureIsolation ==
    \A i \in FailedSteps :
        LET k == steps[i].k IN
        /\ i < Len(steps) =>
               steps[i + 1].k = k + 1 /\ steps[i + 1].step = "connect"
        /\ (idx > k \/ pc = "exited") =>
               /\ Reported(k)
               /\ ResultLine(k).kind = "error"
               /\ ResultLine(k).stream = "stderr"
               /\ ResultLine(k).node = nodes[k]
        /\ pc = "exited" =>
               /\ exitCode = 0
               /\ \A j \in (k + 1)..Len(nodes) :
                      \E c \in 1..Len(calls) : calls[c].k = j

\* The first of two nodes failed at authentication, the second one was
\* connected to afterwards.
C2_Witness ==
    /\ pc = "exited"
    /\ Len(nodes) = 2
    /\ \E i \in FailedSteps : steps[i].k = 1 /\ steps[i].step = "auth"
    /\ \E i \in 1..Len(steps) :
           steps[i].k = 2 /\ steps[i].step = "connect" /\ steps[i].ok

\* The error a call of run_command can return.
IsCauseOf(err, step) ==
    IF step = "keys" THEN err \in {NoHomeMsg, NoKeysMsg} ELSE err = step

\* C3: within one attempt the calls are made in the order of StepOrder, each
\* only after the one before it succeeded; the first failing call is the
\* last call of the attempt, and its error is what run_command returns and
\* what the error line shows.
C3_StepOrder ==
    /\ \A i \in 1..Len(steps) :
           IF steps[i].step = "connect"
           THEN i > 1 =>
                    /\ steps[i - 1].k < steps[i].k
                    /\ ~steps[i - 1].ok \/ steps[i - 1].step = "wait_close"
           ELSE /\ i > 1
                /\ steps[i - 1].k = steps[i].k
                /\ steps[i - 1].ok
                /\ \E p \in 1..(Len(StepOrder) - 1) :
                       /\ StepOrder[p] = steps[i - 1].step
                       /\ StepOrder[p + 1] = steps[i].step
    /\ \A i \in FailedSteps :
           /\ IsCauseOf(steps[i].err, steps[i].step)
           /\ Reported(steps[i].k) =>
                  /\ ResultLine(steps[i].k).kind = "error"
                  /\ ResultLine(steps[i].k).text = steps[i].err
    /\ pc = "report" =>
           /\ steps # <<>>
           /\ steps[Len(steps)].k = idx
           /\ IF steps[Len(steps)].ok
              THEN steps[Len(steps)].step = "wait_close" /\ result.tag = "ok"
              ELSE result = Err(steps[Len(steps)].err)

\* An attempt got as far as the exec request, which failed.
C3_Witness ==
    /\ pc = "report"
    /\ result = Err("exec")
    /\ Len(steps) >= 7
    /\ steps[Len(steps)].step = "exec"
    /\ steps[Len(steps) - 1].step = "channel"

\* An attempt went through all calls.
C3_WitnessSuccess ==
    /\ pc = "report"
    /\ result = Ok(RemoteData)
    /\ steps[Len(steps)].step = "wait_close"

ErrorLines == { i \in 1..Len(out) : out[i].kind = "error" }

HandshakeDone(k) ==
    \E i \in 1..Len(steps) :
        steps[i].k = k /\ steps[i].step = "handshake" /\ steps[i].ok

\* HOME is set and neither ~/.ssh/id_rsa.pub nor ~/.ssh/id_rsa exists.
NoKeyFiles == env.home /\ ~env.pub /\ ~env.priv

\* C4 as stated: without the two key files every node attempt, reachable or
\* not, fails with the key-not-found error, one failure line is printed per
\* node and the process exits with status 0.
C4_Stated_AllKeyNotFound ==
    NoKeyFiles =>
        /\ \A k \in 1..Len(nodes) :
               Reported(k) =>
                   /\ ResultLine(k).kind = "error"
                   /\ ResultLine(k).text = NoKeysMsg
        /\ (pc = "exited" /\ ValidRun) =>
               exitCode = 0 /\ Cardinality(ErrorLines) = Len(nodes)

\* C4 amended: without the two key files every node attempt fails: with the
\* key-not-found error when the node's connect, session creation and
\* handshake succeeded, with the error of the failing one of these calls
\* otherwise; no attempt goes beyond the credential resolution, one failure
\* line is printed per node and the process exits with status 0.
C4_KeyNotFoundAfterHandshake ==
    NoKeyFiles =>
        /\ \A k \in 1..Len(nodes) :
               Reported(k) =>
                   /\ ResultLine(k).kind = "error"
                   /\ IF HandshakeDone(k)
                      THEN ResultLine(k).text = NoKeysMsg
                      ELSE ResultLine(k).text \in
                               {"connect", "session", "handshake"}
        /\ \A i \in 1..Len(steps) :
               steps[i].step \in {"connect", "session", "handshake", "keys"}
        /\ (pc = "exited" /\ ValidRun) =>
               exitCode = 0 /\ Cardinality(ErrorLines) = Len(nodes)

\* Without key files, the first node was unreachable and the second one was
\* reached: a connect error and a key-not-found error were printed.
C4_Witness ==
    /\ NoKeyFiles
    /\ pc = "exited"
    /\ exitCode = 0
    /\ Len(nodes) = 2
    /\ ResultLine(1).text = "connect"
    /\ ResultLine(2).text = NoKeysMsg

\* C5 as stated: without HOME the error ends the process with a non-zero
\* status before any node is contacted, so no TCP connection is opened.
C5_Stated_NoHomeFatalBeforeConnect ==
    ~env.home =>
        /\ \A i \in 1..Len(steps) : steps[i].step # "connect"
        /\ open = {}
        /\ (pc = "exited") => exitCode > 0

\* C5 amended: without HOME the error arises inside each node's attempt,
\* after that node's TCP connect, session creation and handshake succeeded;
\* it ends only that attempt, which is reported with the home-directory
\* message, and a run with enough arguments and a valid configuration still
\* exits with status 0.
C5_NoHomePerNode ==
    ~env.home =>
        /\ \A i \in 1..Len(steps) :
               steps[i].step = "keys" =>
                   /\ ~steps[i].ok
                   /\ steps[i].err = NoHomeMsg
                   /\ i >= 4
                   /\ steps[i - 3].step = "connect"
                   /\ steps[i - 3].ok
                   /\ steps[i - 3].k = steps[i].k
        /\ \A k \in 1..Len(nodes) :
               Reported(k) =>
                   /\ ResultLine(k).kind = "error"
                   /\ HandshakeDone(k) => ResultLine(k).text = NoHomeMsg
        /\ (pc = "exited" /\ ValidRun) => exitCode = 0

\* Without HOME both nodes of the list were connected to, both attempts
\* ended with the home-directory error, and the process exited with 0.
C5_Witness ==
    /\ ~env.home
    /\ pc = "exited"
    /\ exitCode = 0
    /\ Len(nodes) = 2
    /\ ResultLine(1).text = NoHomeMsg
    /\ ResultLine(2).text = NoHomeMsg

\* C6: when config.toml is missing, malformed or without cluster.nodes, no
\* node is announced, run_command is never invoked, nothing is connected,
\* and the process exits with a non-zero status.
C6_BadConfigFatal ==
    configFile # "ok" =>
        /\ calls = <<>>
        /\ steps = <<>>
        /\ open = {}
        /\ nodes = <<>>
        /\ \A i \in 1..Len(out) : out[i].kind \in {"welcome", "usage", "fatal"}
        /\ pc \in {"start", "args", "read_config", "parse_config", "exited"}
        /\ pc = "exited" => exitCode > 0

\* The process has exited on a configuration without cluster.nodes.
C6_Witness ==
    /\ configFile = "nofield"
    /\ Len(args) >= 2
    /\ pc = "exited"
    /\ exitCode = 1
    /\ out[Len(out)].kind = "fatal"

\* The process has exited on a malformed file that lists two nodes.
C6_WitnessMalformed ==
    /\ configFile = "malformed"
    /\ Len(fileNodes) = 2
    /\ Len(args) >= 2
    /\ pc = "exited"
    /\ exitCode = 1

RunAptUpdate == <<ProgName, "run", "apt", "update">>

\* C8 as stated: the arguments "run" "apt" "update" after the program name
\* give the command "apt update".
C8_Stated_AptUpdate ==
    (args = RunAptUpdate /\ pc \notin {"start", "args"}) =>
        command = "apt update"

\* C8 amended: the arguments "run" "apt" "update" after the program name
\* give the command "run apt update", which is what the nodes are asked to
\* execute; "apt update" is the command of the arguments "apt" "update".
C8_JoinKeepsEveryArgument ==
    /\ (args = RunAptUpdate /\ pc \notin {"start", "args"}) =>
           /\ command = "run apt update"
           /\ \A i \in 1..Len(calls) : calls[i].command = "run apt update"
    /\ (args = <<ProgName, "apt", "update">> /\ pc \notin {"start", "args"}) =>
           /\ command = "apt update"
           /\ \A i \in 1..Len(calls) : calls[i].command = "apt update"

\* run_command was invoked in a run started with "run" "apt" "update".
C8_Witness ==
    /\ args = RunAptUpdate
    /\ calls # <<>>
    /\ calls[1].command = "run apt update"

\* The arguments after the program name joined by single spaces, written out
\* for the argument vectors of ArgChoices.
ExpectedCommand ==
    CASE args = <<ProgName>> -> ""
      [] args = <<ProgName, "uptime">> -> "uptime"
      [] args = <<ProgName, "apt", "update">> -> "apt update"
      [] args = <<ProgName, "echo", "hi">> -> "echo hi"
      [] args = RunAptUpdate -> "run apt update"

\* C9: every invocation of run_command of a run receives the same command
\* string, which is the arguments after the program name, in order, joined
\* by single spaces; neither the node nor what happened to earlier nodes
\* changes it.
C9_SameCommand ==
    /\ \A i \in 1..Len(calls) : calls[i].command = ExpectedCommand
    /\ \A i, j \in 1..Len(calls) : calls[i].command = calls[j].command
    /\ pc \notin {"start", "args", "exited"} => command = ExpectedCommand

\* Two different nodes were given the command, the first attempt failed.
C9_Witness ==
    /\ Len(calls) = 2
    /\ calls[1].node # calls[2].node
    /\ \E i \in FailedSteps : steps[i].k = 1
    /\ calls[2].command = "run apt update"

\* C10: while control is in main nothing of run_command is open: every
\* return of run_command, Ok or Err, released the node's connection, session
\* and channel; whatever is open belongs to the node being attempted, and
\* an attempt starts (connect) with nothing open.
C10_Released ==
    /\ pc \in {"start", "args", "read_config", "parse_config", "loop",
               "connect", "report", "exited"} => open = {}
    /\ \A r \in open : r[2] = idx /\ r[1] \in {"tcp", "sess", "channel"}
    /\ Cardinality({ r[2] : r \in open }) <= 1

\* The second node's attempt failed at wait_close, with connection, session
\* and channel opened before, and control is back in main.
C10_Witness ==
    /\ pc = "report"
    /\ idx = 2
    /\ result = Err("wait_close")
    /\ \E i \in 1..Len(steps) :
           steps[i].k = 2 /\ steps[i].step = "channel" /\ steps[i].ok
    /\ open = {}

\* Connection, session and channel of the node being attempted are open.
C10_WitnessOpen ==
    open = {<<"tcp", 2>>, <<"sess", 2>>, <<"channel", 2>>}

\* Positions of control inside run_command.
InRunCommand ==
    pc \in {"connect", "session", "handshake", "keys", "auth", "channel",
            "exec", "read", "wait_close", "hung"}

\* C11: the output is the welcome line followed, for each node in list
\* order, by its announcement, then one outcome line (output block or error
\* line) naming that node, then one blank line; while node k is attempted
\* the last line printed is the announcement of k, so the outcome and the
\* separator of every earlier node are out before node k is announced or
\* connected to, and no call or connection belongs to a later node.
C11_OrderedOutput ==
    /\ \A k \in 1..Len(calls) :
           /\ Len(out) >= 3 * k - 1
           /\ out[1].kind = "welcome"
           /\ AnnounceLine(k) = Line("stdout", "announce", nodes[k], "", "")
           /\ Len(out) >= 3 * k =>
                  /\ ResultLine(k).kind \in {"output", "error"}
                  /\ ResultLine(k).node = nodes[k]
                  /\ Len(out) >= 3 * k + 1
                  /\ out[3 * k + 1] = Line("stdout", "blank", "", "", "")
    /\ calls # <<>> =>
           Len(out) = IF InRunCommand \/ pc = "report"
                      THEN 3 * Len(calls) - 1
                      ELSE 3 * Len(calls) + 1
    /\ (InRunCommand \/ pc = "report") => Len(calls) = idx
    /\ \A i \in 1..Len(steps) : steps[i].k <= Len(calls)
    /\ \A r \in open : r[2] = Len(calls)

\* Two nodes were processed: an output block for the first, an error line
\* for the second, seven lines in all.
C11_Witness ==
    /\ pc = "exited"
    /\ Len(calls) = 2
    /\ Len(out) = 7
    /\ ResultLine(1).kind = "output"
    /\ ResultLine(2).kind = "error"

\* C12: with enough arguments and a configuration that loads, the process
\* exits with status 0 after the last node, whichever attempts failed (all
\* of them included): at exit every node has its outcome line, an output
\* block exactly for the attempts that went through wait_close, an error
\* line for the others.
C12_ExitZero ==
    (ValidRun /\ pc = "exited") =>
        /\ exitCode = 0
        /\ idx = Len(nodes) + 1
        /\ Len(out) = 3 * Len(nodes) + 1
        /\ \A k \in 1..Len(nodes) :
               ResultLine(k).kind =
                   IF \E i \in FailedSteps : steps[i].k = k
                   THEN "error" ELSE "output"

\* The scenario of the specification: nodes 10.0.0.1 and 10.0.0.2, command
\* echo hi, the first node answers hi, the second cannot be connected to.
C12_Witness ==
    /\ pc = "exited"
    /\ exitCode = 0
    /\ args = <<ProgName, "echo", "hi">>
    /\ nodes = <<"10.0.0.1", "10.0.0.2">>
    /\ ResultLine(1) =
           Line("stdout", "output", "10.0.0.1", "echo hi", RemoteData)
    /\ ResultLine(2) = Line("stderr", "error", "10.0.0.2", "", "connect")

\* Every node of the list failed and the process exited with 0.
C12_WitnessAllFail ==
    /\ pc = "exited"
    /\ exitCode = 0
    /\ Len(nodes) = 2
    /\ ResultLine(1).kind = "error"
    /\ ResultLine(2).kind = "error"

\* The calls of get_ssh_key_paths made for the k-th node.
KeysSteps(k) ==
    { i \in 1..Len(steps) : steps[i].k = k /\ steps[i].step = "keys" }

\* C13 as stated: every invocation of run_command performs exactly one
\* credential resolution.
C13_Stated_OneResolutionPerCall ==
    \A k \in 1..Len(calls) :
        Reported(k) => Cardinality(KeysSteps(k)) = 1

\* C13 amended: an invocation of run_command performs exactly one
\* credential resolution when its connect, session creation and handshake
\* succeeded and none when one of them failed; the resolution is made anew
\* in each such invocation (its outcome is that of get_ssh_key_paths on the
\* environment, authentication directly follows a resolution of the same
\* invocation, and nothing resolved is held when an invocation starts).
C13_ResolutionPerHandshakenCall ==
    /\ \A k \in 1..Len(calls) :
           /\ Cardinality(KeysSteps(k)) <= 1
           /\ Reported(k) =>
                  (Cardinality(KeysSteps(k)) = 1 <=> HandshakeDone(k))
    /\ \A i \in 1..Len(steps) :
           /\ steps[i].step = "keys" =>
                  (steps[i].ok <=> get_ssh_key_paths(env).tag = "ok")
           /\ steps[i].step = "auth" =>
                  /\ i > 1
                  /\ steps[i - 1].step = "keys"
                  /\ steps[i - 1].ok
                  /\ steps[i - 1].k = steps[i].k
    /\ pc \in {"loop", "connect", "session", "handshake", "keys", "report",
               "exited"} => keys = FALSE

\* Both nodes of the list got past the handshake: two resolutions, one per
\* invocation.
C13_Witness ==
    /\ pc = "exited"
    /\ Len(calls) = 2
    /\ Cardinality(KeysSteps(1)) = 1
    /\ Cardinality(KeysSteps(2)) = 1
    /\ \E i \in KeysSteps(2) : steps[i].ok

\* The first node could not be connected to: no resolution for it, one for
\* the second node.
C13_WitnessNoResolution ==
    /\ pc = "exited"
    /\ Len(calls) = 2
    /\ KeysSteps(1) = {}
    /\ Cardinality(KeysSteps(2)) = 1

\* The call named step of the k-th node's attempt succeeded.
StepDone(k, step) ==
    \E i \in 1..Len(steps) :
        steps[i].k = k /\ steps[i].step = step /\ steps[i].ok

\* C14: run_command returns Ok only when the read to end of output and then
\* wait_close succeeded, and an output block is printed only for such an
\* attempt; when the read or wait_close fails the attempt's outcome is the
\* error: the output captured so far is dropped, it is neither returned nor
\* printed.
C14_SuccessOnlyAfterClose ==
    /\ result.tag = "ok" =>
           /\ pc = "report"
           /\ Len(steps) >= 2
           /\ steps[Len(steps)] = [k |-> idx, step |-> "wait_close",
                                   ok |-> TRUE, err |-> ""]
           /\ steps[Len(steps) - 1] = [k |-> idx, step |-> "read",
                                       ok |-> TRUE, err |-> ""]
           /\ result.val = RemoteData
    /\ \A k \in 1..Len(calls) :
           (Reported(k) /\ ResultLine(k).kind = "output") =>
               StepDone(k, "read") /\ StepDone(k, "wait_close")
    /\ \A i \in FailedSteps :
           steps[i].step \in {"read", "wait_close"} =>
               /\ (pc = "report" /\ idx = steps[i].k) =>
                      /\ result = Err(steps[i].step)
                      /\ output = ""
               /\ Reported(steps[i].k) =>
                      /\ ResultLine(steps[i].k).kind = "error"
                      /\ \A j \in (3 * steps[i].k - 1)..(3 * steps[i].k + 1) :
                             out[j].text # RemoteData

\* The output of the first node was read, then wait_close failed: an error
\* line was printed for the node.
C14_Witness ==
    /\ Reported(1)
    /\ StepDone(1, "read")
    /\ \E i \in FailedSteps : steps[i].k = 1 /\ steps[i].step = "wait_close"
    /\ ResultLine(1) = Line("stderr", "error", nodes[1], "", "wait_close")

\* The read of the first node's output failed.
C14_WitnessReadFails ==
    /\ Reported(1)
    /\ \E i \in FailedSteps : steps[i].k = 1 /\ steps[i].step = "read"
    /\ ResultLine(1).kind = "error"

\* The TCP connects made to address a.
ConnectsTo(a) ==
    { i \in 1..Len(steps) :
          steps[i].step = "connect" /\ nodes[steps[i].k] = a }

\* The entries of the node list that hold address a.
EntriesOf(a) == { k \in 1..Len(nodes) : nodes[k] = a }

\* C15 as stated: in one run each node is the target of at most one TCP
\* connect.
C15_Stated_OneConnectPerNode ==
    \A a \in Addr : Cardinality(ConnectsTo(a)) <= 1

\* C15 amended: each entry of the node list is the target of at most one
\* TCP connect (a node whose address is listed m times is connected to at
\* most m times, a node listed once at most once); within the attempt of an
\* entry every call is made at most once, a failed call is the last call of
\* its entry, and the driver never goes back to an earlier entry.
C15_NoRetryPerEntry ==
    /\ \A i, j \in 1..Len(steps) :
           /\ (steps[i].k = steps[j].k /\ steps[i].step = steps[j].step)
                  => i = j
           /\ i < j => steps[i].k <= steps[j].k
           /\ (i < j /\ ~steps[i].ok) => steps[i].k < steps[j].k
    /\ \A i, j \in 1..Len(calls) : calls[i].k = calls[j].k => i = j
    /\ \A a \in Addr :
           Cardinality(ConnectsTo(a)) <= Cardinality(EntriesOf(a))

\* Two different nodes: the handshake with the first one failed, the second
\* one was then processed, and the first was not contacted again.
C15_Witness ==
    /\ pc = "exited"
    /\ Len(nodes) = 2
    /\ nodes[1] # nodes[2]
    /\ \E i \in FailedSteps : steps[i].k = 1 /\ steps[i].step = "handshake"
    /\ StepDone(2, "connect")
    /\ Cardinality(ConnectsTo(nodes[1])) = 1

\* The same address is listed twice and was connected to twice.
C15_WitnessListedTwice ==
    /\ pc = "exited"
    /\ Len(nodes) = 2
    /\ nodes[1] = nodes[2]
    /\ Cardinality(ConnectsTo(nodes[1])) = 2

\* The attempt of the k-th node has returned: its last call failed or its
\* wait_close succeeded.
Returned(k) ==
    \E i \in 1..Len(steps) :
        steps[i].k = k /\ (~steps[i].ok \/ steps[i].step = "wait_close")

\* C16: a run in which no call hangs eventually exits, and a run with enough
\* arguments and a valid configuration exits only after all N nodes were
\* attempted and every attempt returned; once a call on node k hangs the
\* process stays in it for ever: it has not exited, node k is the last node
\* announced and called, and nothing of a later node has happened.
C16_TerminatesUnlessHung ==
    /\ <>(pc = "exited" \/ pc = "hung")
    /\ []((pc = "exited" /\ ValidRun) =>
               /\ Len(calls) = Len(nodes)
               /\ \A k \in 1..Len(nodes) : Returned(k))
    /\ [](pc = "hung" =>
               /\ exitCode = -1
               /\ idx \in 1..Len(nodes)
               /\ Len(calls) = idx
               /\ ~Returned(idx)
               /\ Len(out) = 3 * idx - 1
               /\ \A i \in 1..Len(steps) : steps[i].k <= idx)
    /\ [][pc = "hung" => pc' = "hung"]_vars

\* The read of the first of two nodes hangs: the second node is not
\* announced.
C16_Witness ==
    /\ pc = "hung"
    /\ idx = 1
    /\ Len(nodes) = 2
    /\ StepDone(1, "exec")
    /\ ~StepDone(1, "read")
    /\ Len(calls) = 1
    /\ exitCode = -1

\* No call hung and the run over two nodes has exited.
C16_WitnessTerminated ==
    /\ pc = "exited"
    /\ ValidRun
    /\ Len(nodes) = 2
    /\ Returned(1)
    /\ Returned(2)

\* The calls made in the attempt of the k-th node, in order.
OwnSteps(k) == SelectSeq(steps, LAMBDA s : s.k = k)

\* What the answers of node k and the local credentials alone make of the
\* call at position p of the attempt: the call that is made and, when it
\* fails, the error it returns.
OwnCall(k, p, ok) ==
    [k |-> k, step |-> StepOrder[p], ok |-> ok,
     err |-> IF ok THEN ""
             ELSE IF StepOrder[p] = "keys" THEN get_ssh_key_paths(env).val
             ELSE StepOrder[p]]

\* The outcome line that the last call of the attempt of node k determines.
OwnLine(k, last) ==
    IF last.ok
    THEN Line("stdout", "output", nodes[k], command, RemoteData)
    ELSE Line("stderr", "error", nodes[k], "", last.err)

\* C17: what is attempted and displayed for a node is a function of that
\* node's own answers, the command, the node's address and the local
\* credentials; nothing of another node's attempt enters.  Every attempt
\* starts from the same local state; its calls are those of StepOrder up to
\* the first answer that is a failure, the credential resolution being
\* decided by the local environment; its outcome line is determined by its
\* own last call.  Hence two runs that differ only in the answers of node j
\* show the same calls and the same outcome line for every other node.
C17_NoFlowBetweenAttempts ==
    /\ pc = "connect" =>
           open = {} /\ keys = FALSE /\ output = "" /\ result = NoResult
    /\ \A k \in 1..Len(calls) :
           LET own == OwnSteps(k) IN
           /\ Len(own) <= Len(StepOrder)
           /\ \A p \in 1..Len(own) :
                  /\ own[p] = OwnCall(k, p, own[p].ok)
                  /\ p < Len(own) => own[p].ok
                  /\ own[p].step = "keys" =>
                         (own[p].ok <=> get_ssh_key_paths(env).tag = "ok")
           /\ Reported(k) =>
                  /\ own # <<>>
                  /\ ResultLine(k) = OwnLine(k, own[Len(own)])
                  /\ AnnounceLine(k) =
                         Line("stdout", "announce", nodes[k], "", "")

\* The first node's authentication failed; the second node went through and
\* its output block is printed.
C17_Witness ==
    /\ pc = "exited"
    /\ args = <<ProgName, "echo", "hi">>
    /\ nodes = <<"10.0.0.1", "10.0.0.2">>
    /\ ResultLine(1) = Line("stderr", "error", "10.0.0.1", "", "auth")
    /\ Len(OwnSteps(2)) = Len(StepOrder)
    /\ ResultLine(2) =
           Line("stdout", "output", "10.0.0.2", "echo hi", RemoteData)

\* The same run except that the first node went through as well: the calls
\* and the outcome line of the second node are the same.
C17_WitnessOtherRun ==
    /\ pc = "exited"
    /\ args = <<ProgName, "echo", "hi">>
    /\ nodes = <<"10.0.0.1", "10.0.0.2">>
    /\ ResultLine(1).kind = "output"
    /\ Len(OwnSteps(2)) = Len(StepOrder)
    /\ ResultLine(2) =
           Line("stdout", "output", "10.0.0.2", "echo hi", RemoteData)
====
